---- MODULE Spec2Model ----
(***************************************************************************)
(* Round/question progression engine of the trivia bot: the Celery jobs    *)
(* of src/tasks, the GameEngine of src/game/engine.py, the elimination     *)
(* logic of src/game/elimination.py and the answer callback of             *)
(* src/bot/game_handlers.py, for one game.                                 *)
(***************************************************************************)
EXTENDS Integers, Sequences, FiniteSets, TLC

(* ---- configuration (src/config.py, every value is an environment       *)
(* override of the default) and the roster handed over by matchmaking ---- *)
ROUNDS_PER_GAME == 2
QUESTIONS_PER_ROUND == 2
QUESTION_TIME_LIMIT == 2
TELEGRAM_RETRY_ATTEMPTS == 3
TELEGRAM_RETRY_BACKOFF_BASE == 1
RATING_WINNER_BONUS == 20
RATING_SECOND_BONUS == 12
RATING_THIRD_BONUS == 8
TIE_BREAK_TIME_LIMIT == 5

(* the people and the simulated competitors matchmaking can seat; a game's *)
(* roster is the set of its GamePlayer rows                                *)
HumanIds == {"h1"}
BotIds == {"b1", "b2"}
Duo == {"h1", "b1"}
Trio == {"h1", "b1", "b2"}

(* elapsed seconds a human or a simulated competitor may need *)
HumanTimes == {1}
BotTimes == {1}

(* ---- bounds of the model ---- *)
MaxFaults == 1
BankSize == 3
MaxTx == 2
MaxLen == 3

VARIABLES
    game,       \* Game row: status, current_round (0 = NULL), is_final_stage
    rounds,     \* Round rows, index = Round.id: round_number, status, nq = its RoundQuestion rows
    displayed,  \* RoundQuestion.displayed_at per <<round id, question_number>>, 0 = NULL
    clock,      \* datetime.now(), advanced by every displayed_at write
    sentTo,     \* <<round id, question_number, user>>: question message delivered
    answers,    \* Answer rows
    players,    \* GamePlayer rows
    queue,      \* Celery broker: the pending jobs (equal arguments, one entry)
    faults,     \* redeliveries by the broker and failed Telegram deliveries so far
    unused,     \* approved questions of the bank not yet used in this game
    collected,  \* history: question-instances collect_answers has completed for
    unchecked,  \* history: Answers recorded in the finale and not yet seen by a check_early_victory
    fired,      \* history: the winner finish_game was called with for an early victory
    users,      \* User rows of the human competitors: rating, games_played, games_won
    runs,       \* history: how often each counted job has run, up to 2
    started,    \* question messages whose start_question_timer job has run
    timers,     \* pending update_question_timer jobs
    edits,      \* history: countdown edits of question messages
    advEnq,     \* history: send_question_to_players jobs enqueued by send_next_question
    cleanup_pc, \* position of the cleanup script: "idle", "committed", "purged"
    tx,         \* database sessions that have read and not yet committed
    rejected,   \* history: Answer keys whose INSERT the database refused
    elimIn,     \* the result list handed to the elimination function under call
    elimOut,    \* what that function returned for elimIn
    telegram,   \* per chat, the outcome of each successive Bot.send_message call
    sends,      \* what send_question_to_all_players did with telegram
    skipped,    \* history: the send_next_question jobs that returned on a locked Round row
    handoff,    \* history: the matchmaking task that enqueued start_game_task, or "none"
    shuffles,   \* per question-instance, what _shuffle_question_options returned for it
    replies     \* history: the last answer callback and what handle_answer replied to it

Players == DOMAIN players
Humans == Players \cap HumanIds
Bots == Players \cap BotIds

vars == <<game, rounds, displayed, clock, sentTo, answers, players, queue, faults,
          unused, collected, advEnq, unchecked, fired, users, runs, started, timers, edits, cleanup_pc, tx, rejected, elimIn, elimOut, telegram, sends, skipped, handoff, shuffles, replies>>
(* what the jobs and the answer callback themselves never touch *)
aux == <<started, timers, edits, cleanup_pc, tx, rejected, elimIn, elimOut, telegram, sends, skipped, handoff,
        shuffles, replies>>

(* ---- jobs ---- *)
Job(t, a, b) == [t |-> t, a |-> a, b |-> b]
SG == Job("start_game_task", 0, 0)
SQ(rid, q) == Job("send_question_to_players", rid, q)
PB(rid, q) == Job("process_bot_answers", rid, q)
CA(rid, q) == Job("collect_answers", rid, q)
SN(rid, k) == Job("send_next_question", rid, k)
FR(rn) == Job("finish_round_task", rn, 0)
NR(rn) == Job("start_next_round_task", rn, 0)
FG == Job("finish_game_task", 0, 0)
EV(rid) == Job("check_early_victory_task", rid, 0)

Pending(j) == j \in queue
(* The worker runs job j, which enqueues the jobs in new (apply_async).  The *)
(* broker delivers at least once: with redeliver the message stays pending  *)
(* and is run again later.                                                  *)
RunsOf(j) == IF j \in DOMAIN runs THEN runs[j] ELSE 0
Counted == {"process_bot_answers", "send_next_question"}
Ran(j) == IF j.t \notin Counted THEN runs
          ELSE [k \in (DOMAIN runs) \cup {j} |->
                  IF k # j THEN runs[k] ELSE IF RunsOf(j) >= 1 THEN 2 ELSE 1]
Ack(j, redeliver, new) ==
    /\ runs' = Ran(j)
    /\ redeliver => faults < MaxFaults
    /\ faults' = IF redeliver THEN faults + 1 ELSE faults
    /\ queue' = (IF redeliver THEN queue ELSE queue \ {j}) \cup new

(* ---- rows ---- *)
RoundIds == 1..Len(rounds)
QuestionsOf(rid) == 1..rounds[rid].nq
AllQuestions == 1..QUESTIONS_PER_ROUND
Alive == {p \in Players : ~players[p].is_eliminated}

NewUser == [rating |-> 0, games_played |-> 0, games_won |-> 0]
NewPlayer == [is_eliminated |-> FALSE, eliminated_round |-> 0, left_game |-> FALSE,
              total_score |-> 0, total_time |-> 0, final_place |-> 0]

NoUser == "none"
NotCalled == [eliminated |-> "not_called", needs_tie_break |-> FALSE]
NoReply == [user |-> NoUser, rid |-> 0, q |-> 0, reply |-> ""]
Quiet ==
    /\ started = {}
    /\ timers = {}
    /\ edits = {}
    /\ cleanup_pc = "idle"
    /\ tx = {}
    /\ rejected = {}
    /\ elimOut = NotCalled
    /\ sends = <<>>
    /\ skipped = {}
    /\ handoff = "none"
    /\ replies = NoReply
Idle == Quiet /\ shuffles = <<>>
CreatedAs(gm, jobs, roster, bank) ==
    /\ game = gm
    /\ rounds = <<>>
    /\ displayed = <<>>
    /\ clock = 0
    /\ sentTo = {}
    /\ answers = {}
    /\ players = [p \in roster |-> NewPlayer]
    /\ queue = jobs
    /\ faults = 0
    /\ unused = bank
    /\ collected = {}
    /\ advEnq = <<>>
    /\ unchecked = {}
    /\ fired = NoUser
    /\ runs = <<>>
    /\ users = [u \in HumanIds |-> NewUser]
NoGame == [status |-> "absent", current_round |-> 0, is_final_stage |-> FALSE]
CreatedWith(roster, bank) == CreatedAs([NoGame EXCEPT !.status = "pre_start"], {SG}, roster, bank)
Created == CreatedWith(Duo, BankSize)
Init == Created /\ Idle /\ elimIn = <<>> /\ telegram = <<>>

(* RoundQueries.create_round + GameEngine._create_round: a new Round row   *)
(* with status not_started and one question-instance (displayed_at NULL)   *)
(* per unused question, at most QUESTIONS_PER_ROUND; with no unused        *)
(* question the Round row stays and _create_round returns None.            *)
QuestionsFound == IF unused < QUESTIONS_PER_ROUND THEN unused ELSE QUESTIONS_PER_ROUND
NewRoundId == Len(rounds) + 1
RoundsWith(rn, st) ==
    Append(rounds, [round_number |-> rn, status |-> st, nq |-> QuestionsFound,
                    parent_round_id |-> 0])
WithRound(f) ==
    [k \in (DOMAIN f) \cup ({NewRoundId} \X (1..QuestionsFound)) |->
        IF k \in DOMAIN f THEN f[k] ELSE 0]
create_round(rn, st) ==
    /\ rounds' = RoundsWith(rn, st)
    /\ displayed' = WithRound(displayed)
    /\ advEnq' = WithRound(advEnq)
    /\ unused' = unused - QuestionsFound

(* GameEngine.start_game + start_game_task; the session commits when the   *)
(* with-block is left, also on the early return                            *)
start_game_allowed_always(gm) == TRUE
start_game_allowed(gm) == gm.status \in {"waiting", "pre_start"}
start_game_task(redeliver) ==
    /\ Pending(SG)
    /\ IF start_game_allowed(game)
       THEN /\ game' = [game EXCEPT !.status = "in_progress", !.current_round = 1]
            /\ create_round(1, "not_started")
            /\ Ack(SG, redeliver, IF QuestionsFound > 0 THEN {SQ(NewRoundId, 1)} ELSE {})
       ELSE /\ Ack(SG, redeliver, {})
            /\ UNCHANGED <<game, rounds, displayed, advEnq, unused>>
    /\ UNCHANGED <<clock, sentTo, answers, players, collected, unchecked, fired, users>>

(* ---- Answer ledger ---- *)
AnswersOf(as, rid, q, u) == {a \in as : a.rid = rid /\ a.q = q /\ a.user = u}

(* session.query(Answer).filter(round_question_id, user_id).first() *)
existing_answer(as, rid, q, u) == AnswersOf(as, rid, q, u) # {}

AnswerRow(as, rid, q, u, c, t) ==
    [rid |-> rid, q |-> q, user |-> u, is_correct |-> c, answer_time |-> t,
     seq |-> Cardinality(AnswersOf(as, rid, q, u))]

(* The uniqueness of Answer on (question-instance, competitor) declared by *)
(* the persisted-state layout: an INSERT of a taken key is rejected.       *)
uq_answer_violated_off(as, rows) == FALSE
uq_answer_violated(as, rows) ==
    \E r \in rows : existing_answer(as, r.rid, r.q, r.user)

(* game_player.total_score += 1 / game_player.total_time += answer_time,   *)
(* for every row just added to the session                                 *)
ScoreOf(rows, u) == Cardinality({r \in rows : r.user = u /\ r.is_correct})
RECURSIVE TimeOf(_, _)
TimeOf(rows, u) ==
    IF \A r \in rows : r.user # u THEN 0
    ELSE LET r == CHOOSE x \in rows : x.user = u
         IN r.answer_time + TimeOf(rows \ {r}, u)
WithStats(pl, rows) ==
    [p \in Players |-> [pl[p] EXCEPT !.total_score = @ + ScoreOf(rows, p),
                                     !.total_time = @ + TimeOf(rows, p)]]

(* ---- GameEngine.check_early_victory ---- *)
CorrectInRound(as, rid, u) ==
    Cardinality({a \in as : a.rid = rid /\ a.user = u /\ a.is_correct})
(* "if s_loser + q_remaining < s_leader" *)
early_victory_fires_tied(s_loser, q_remaining, s_leader) ==
    s_loser + q_remaining <= s_leader
early_victory_fires(s_loser, q_remaining, s_leader) ==
    s_loser + q_remaining < s_leader
check_early_victory(gm, rs, pl, as, rid) ==
    LET alive == {p \in Players : ~pl[p].is_eliminated}
    IN IF Cardinality(alive) # 2 THEN NoUser
       ELSE IF rs[rid].round_number # ROUNDS_PER_GAME THEN NoUser
       ELSE LET x == CHOOSE p \in alive : TRUE
                y == CHOOSE p \in alive : p # x
                cx == CorrectInRound(as, rid, x)
                cy == CorrectInRound(as, rid, y)
                answered == {a.q : a \in {b \in as : b.rid = rid /\ b.user \in alive}}
                q_remaining == rs[rid].nq - Cardinality(answered)
                leader == IF cx > cy THEN x ELSE y
                s_leader == IF cx > cy THEN cx ELSE cy
                s_loser == IF cx > cy THEN cy ELSE cx
            IN IF cx = cy THEN NoUser
               ELSE IF early_victory_fires(s_loser, q_remaining, s_leader) THEN leader
               ELSE NoUser

(* ---- GameEngine.finish_game ---- *)
PlayerOrder == <<"h1", "b1", "b2">>
Idx(p) == CHOOSE i \in 1..Len(PlayerOrder) : PlayerOrder[i] = p
(* sorted(key = (-total_score, total_time)), stable on the roster order *)
Before(pl, a, b) ==
    \/ pl[a].total_score > pl[b].total_score
    \/ pl[a].total_score = pl[b].total_score /\ pl[a].total_time < pl[b].total_time
    \/ pl[a].total_score = pl[b].total_score /\ pl[a].total_time = pl[b].total_time
       /\ Idx(a) < Idx(b)
finish_game_players(pl, winner) ==
    LET alive == {p \in Players : ~pl[p].is_eliminated}
    IN [p \in Players |->
          IF p \notin alive THEN pl[p]
          ELSE IF winner # NoUser
               THEN [pl[p] EXCEPT !.final_place = IF p = winner THEN 1 ELSE 2]
               ELSE [pl[p] EXCEPT !.final_place =
                        1 + Cardinality({o \in alive : Before(pl, o, p)})]]
(* RatingSystem.calculate_rating_delta for a rated game of at most three *)
calculate_rating_delta(place) ==
    IF place = 1 THEN RATING_WINNER_BONUS
    ELSE IF place = 2 THEN RATING_SECOND_BONUS
    ELSE RATING_THIRD_BONUS
(* update_ratings_after_game + "Apply rating changes": every human of the *)
(* game whose final_place is set (pl: the rows after the places are       *)
(* assigned)                                                               *)
finish_game_users(us, pl) ==
    [u \in DOMAIN us |->
        IF u \in DOMAIN pl /\ pl[u].final_place # 0
        THEN [rating |-> us[u].rating + calculate_rating_delta(pl[u].final_place),
              games_played |-> us[u].games_played + 1,
              games_won |-> us[u].games_won +
                  (IF calculate_rating_delta(pl[u].final_place) > 0 THEN 1 ELSE 0)]
        ELSE us[u]]
finish_game_game(gm) ==
    [gm EXCEPT !.status = "finished",
               !.is_final_stage = IF gm.current_round = ROUNDS_PER_GAME THEN TRUE ELSE @]

(* ---- send_question_to_players + GameNotifications.send_question_to_all_players ---- *)
question_was_sent_always(shown) == TRUE
question_was_sent(shown) == shown # 0
send_question_to_players(rid, q, redeliver) ==
    /\ Pending(SQ(rid, q))
    /\ \E D \in SUBSET (Alive \cap Humans) :
         LET failed == (Alive \cap Humans) \ D
             n == IF D # {} THEN 1 ELSE 0
             f == (IF failed # {} THEN 1 ELSE 0) + (IF redeliver THEN 1 ELSE 0)
             shown == IF n > 0 THEN clock + n ELSE displayed[<<rid, q>>]
         IN /\ faults + f <= MaxFaults
            /\ faults' = faults + f
            /\ rounds' = [rounds EXCEPT ![rid].status =
                              IF @ = "not_started" THEN "in_progress" ELSE @]
            /\ displayed' = [displayed EXCEPT ![<<rid, q>>] = shown]
            /\ clock' = clock + n
            /\ sentTo' = sentTo \cup {<<rid, q, u>> : u \in D}
            /\ queue' = (IF redeliver THEN queue ELSE queue \ {SQ(rid, q)})
                        \cup {PB(rid, q), IF question_was_sent(shown) THEN CA(rid, q)
                                          ELSE SQ(rid, q)}
    /\ runs' = Ran(SQ(rid, q))
    /\ UNCHANGED <<game, answers, players, unused, collected, advEnq, unchecked, fired, users>>

(* ---- bookkeeping of the finale: which recorded Answers no evaluation of ---- *)
(* ---- check_early_victory has covered yet                               ---- *)
InFinale(pl, rs, rid) ==
    /\ rs[rid].round_number = ROUNDS_PER_GAME
    /\ rs[rid].status = "in_progress"
    /\ Cardinality({p \in DOMAIN pl : ~pl[p].is_eliminated}) = 2
Recorded(rows, rid) ==
    IF InFinale(players, rounds, rid) THEN {<<r.rid, r.q, r.user>> : r \in rows} ELSE {}
Evaluated(rid) == {k \in unchecked : k[1] # rid}

(* ---- handle_answer (callback of the answer keyboard) ---- *)
handle_answer(u, rid, q) ==
    /\ <<rid, q, u>> \in sentTo
    /\ rounds[rid].status = "in_progress"
    /\ ~existing_answer(answers, rid, q, u)
    /\ ~players[u].is_eliminated
    /\ \E c \in BOOLEAN, t \in HumanTimes :
         LET rows == {AnswerRow(answers, rid, q, u, c, t)}
         IN /\ answers' = answers \cup rows
            /\ players' = WithStats(players, rows)
            /\ unchecked' = unchecked \cup Recorded(rows, rid)
    /\ queue' = IF game.is_final_stage THEN queue \cup {EV(rid)} ELSE queue
    /\ UNCHANGED <<game, rounds, displayed, clock, sentTo, faults, unused, collected, advEnq,
                   fired, users, runs>>

(* ---- process_bot_answers ---- *)
BotRows(as, pl, rid, q, f) ==
    {AnswerRow(as, rid, q, b, f[b][1], f[b][2]) : b \in DOMAIN f}
BotsToAnswer_all(as, pl, rid, q) ==
    {b \in Bots : ~pl[b].is_eliminated}
BotsToAnswer(as, pl, rid, q) ==
    {b \in Bots : ~pl[b].is_eliminated /\ ~existing_answer(as, rid, q, b)}
process_bot_answers(rid, q, redeliver) ==
    /\ Pending(PB(rid, q))
    /\ \E f \in [BotsToAnswer(answers, players, rid, q) -> BOOLEAN \X BotTimes] :
         LET rows == BotRows(answers, players, rid, q, f)
             as1 == answers \cup rows
             pl1 == WithStats(players, rows)
             winner == check_early_victory(game, rounds, pl1, as1, rid)
         IN /\ answers' = as1
            /\ IF winner # NoUser
               THEN /\ players' = finish_game_players(pl1, winner)
                    /\ game' = finish_game_game(game)
               ELSE /\ players' = pl1
                    /\ UNCHANGED game
            /\ fired' = IF winner # NoUser THEN winner ELSE fired
            /\ users' = IF winner # NoUser
                        THEN finish_game_users(users, finish_game_players(pl1, winner))
                        ELSE users
    /\ unchecked' = Evaluated(rid)
    /\ Ack(PB(rid, q), redeliver, {})
    /\ UNCHANGED <<rounds, displayed, clock, sentTo, unused, collected, advEnq>>

(* ---- collect_answers ---- *)
TimedOut(as, pl, rid, q) ==
    {u \in Humans : ~pl[u].is_eliminated /\ ~pl[u].left_game
                    /\ ~existing_answer(as, rid, q, u)}
TimeoutRows(as, pl, rid, q) ==
    {AnswerRow(as, rid, q, u, FALSE, QUESTION_TIME_LIMIT) : u \in TimedOut(as, pl, rid, q)}
next_already_displayed(rid, q) ==
    <<rid, q + 1>> \in DOMAIN displayed /\ displayed[<<rid, q + 1>>] # 0
collect_answers(rid, q, redeliver) ==
    /\ Pending(CA(rid, q))
    /\ LET rows == TimeoutRows(answers, players, rid, q)
       IN /\ answers' = answers \cup rows
          /\ players' = WithStats(players, rows)
          /\ unchecked' = unchecked \cup Recorded(rows, rid)
    /\ Ack(CA(rid, q), redeliver,
           IF next_already_displayed(rid, q) THEN {} ELSE {SN(rid, q)})
    /\ collected' = collected \cup {<<rid, q>>}
    /\ UNCHANGED <<game, rounds, displayed, clock, sentTo, unused, advEnq, fired, users>>

(* ---- send_next_question ---- *)
DisplayedIn_none(rid) == {}
DisplayedIn(rid) == {q \in QuestionsOf(rid) : displayed[<<rid, q>>] # 0}
last_displayed_number(rid) ==
    IF DisplayedIn(rid) = {} THEN 0
    ELSE CHOOSE q \in DisplayedIn(rid) : \A o \in DisplayedIn(rid) : o <= q
SnProceeds(rid, k) ==
    /\ rounds[rid].status = "in_progress"
    /\ game.status = "in_progress"
    /\ k \in QuestionsOf(rid)
    /\ ~(DisplayedIn(rid) # {} /\ last_displayed_number(rid) >= k + 1)
(* what send_next_question(rid, k) hands to apply_async once it holds the Round row *)
SnEnqueues(rid, k) ==
    IF ~SnProceeds(rid, k) THEN {}
    ELSE IF k + 1 \notin QuestionsOf(rid) THEN {FR(rounds[rid].round_number)}
    ELSE IF k + 1 \in DisplayedIn(rid) THEN {}
    ELSE {SQ(rid, k + 1), PB(rid, k + 1)}
SnAdvEnq(rid, k) ==
    IF SQ(rid, k + 1) \in SnEnqueues(rid, k)
    THEN [advEnq EXCEPT ![<<rid, k + 1>>] = @ + 1]
    ELSE advEnq
send_next_question(rid, k, redeliver) ==
    /\ Pending(SN(rid, k))
    /\ Ack(SN(rid, k), redeliver, SnEnqueues(rid, k))
    /\ advEnq' = SnAdvEnq(rid, k)
    /\ UNCHANGED <<game, rounds, displayed, clock, sentTo, answers, players,
                   unused, collected, unchecked, fired, users>>

(* ---- EliminationLogic.determine_eliminated_player ---- *)
(* round_results: sequence of [user_id, correct_answers, total_time] *)
SeqMin(S) == CHOOSE m \in S : \A x \in S : m <= x
SeqMax(S) == CHOOSE m \in S : \A x \in S : x <= m
HasMinCorrect(rs, r) ==
    r.correct_answers = SeqMin({rs[i].correct_answers : i \in 1..Len(rs)})
candidates_by_score(rs) == SelectSeq(rs, LAMBDA r : HasMinCorrect(rs, r))
HasMaxTime_fastest(cs, r) == r.total_time = SeqMin({cs[i].total_time : i \in 1..Len(cs)})
HasMaxTime(cs, r) == r.total_time = SeqMax({cs[i].total_time : i \in 1..Len(cs)})
candidates_by_time(cs) == SelectSeq(cs, LAMBDA r : HasMaxTime(cs, r))
all_have_same_score_and_time_never(cs) == FALSE
all_have_same_score_and_time(cs) ==
    IF Len(cs) <= 1 THEN FALSE
    ELSE \A i \in 1..Len(cs) : /\ cs[i].correct_answers = cs[1].correct_answers
                               /\ cs[i].total_time = cs[1].total_time
Verdict(u, t) == [eliminated |-> u, needs_tie_break |-> t]
determine_eliminated_player_first(rs) ==
    IF Len(rs) = 0 THEN Verdict(NoUser, FALSE)
    ELSE Verdict(candidates_by_time(candidates_by_score(rs))[1].user_id, FALSE)
determine_eliminated_player(rs) ==
    IF Len(rs) = 0 THEN Verdict(NoUser, FALSE)
    ELSE LET byScore == candidates_by_score(rs)
             cands == candidates_by_time(byScore)
         IN IF Len(byScore) = 1 THEN Verdict(byScore[1].user_id, FALSE)
            ELSE IF Len(cands) = 1 THEN Verdict(cands[1].user_id, FALSE)
            ELSE IF all_have_same_score_and_time(cands) THEN Verdict(NoUser, TRUE)
            ELSE Verdict(cands[1].user_id, FALSE)

(* ---- GameEngine.finish_round ---- *)
RECURSIVE SumTime(_)
SumTime(rows) ==
    IF rows = {} THEN 0
    ELSE LET r == CHOOSE x \in rows : TRUE IN r.answer_time + SumTime(rows \ {r})
RoundRows(as, rid, u) == {a \in as : a.rid = rid /\ a.user = u}
AliveSeq(pl) == SelectSeq(PlayerOrder, LAMBDA p : p \in DOMAIN pl /\ ~pl[p].is_eliminated)
round_results(pl, as, rid) ==
    LET al == AliveSeq(pl)
    IN [i \in 1..Len(al) |->
          [user_id |-> al[i],
           correct_answers |-> CorrectInRound(as, rid, al[i]),
           total_time |-> SumTime(RoundRows(as, rid, al[i]))]]
IsFinale(pl, rn) ==
    Cardinality({p \in Players : ~pl[p].is_eliminated}) = 2 /\ rn = ROUNDS_PER_GAME
(* the state finish_round commits: [game, rounds, players]; early_victory is *)
(* the winner it called finish_game with                                      *)
finish_round(gm, rs, pl, as, rid) ==
    LET rn == rs[rid].round_number
        winner == IF IsFinale(pl, rn) THEN check_early_victory(gm, rs, pl, as, rid)
                  ELSE NoUser
        v == determine_eliminated_player(round_results(pl, as, rid))
    IN IF winner # NoUser
       THEN [game |-> finish_game_game(gm), rounds |-> rs,
             players |-> finish_game_players(pl, winner), early_victory |-> winner]
       ELSE IF v.needs_tie_break
       THEN [game |-> gm, rounds |-> rs, players |-> pl, early_victory |-> NoUser]
       ELSE [game |-> [gm EXCEPT !.is_final_stage = IF IsFinale(pl, rn) THEN TRUE ELSE @],
             rounds |-> [rs EXCEPT ![rid].status = "finished"],
             players |-> [p \in Players |->
                            IF p = v.eliminated
                            THEN [pl[p] EXCEPT !.is_eliminated = TRUE,
                                               !.eliminated_round = rn]
                            ELSE pl[p]],
             early_victory |-> NoUser]

(* ---- finish_round_task; rid is the row .first() returns for (game, round_number) ---- *)
RoundsNumbered(rn) == {i \in RoundIds : rounds[i].round_number = rn}
FrProceeds(rn) ==
    /\ game.status \notin {"cancelled", "finished"}
    /\ RoundsNumbered(rn) # {}
    /\ ~(game.current_round # 0 /\ game.current_round > rn)
(* "if alive_count <= 1 ... elif round_number < ROUNDS_PER_GAME ... else" *)
follow_up_finish(alive_count, rn) == {FG}
follow_up(alive_count, rn) ==
    IF alive_count <= 1 THEN {FG}
    ELSE IF rn < ROUNDS_PER_GAME THEN {NR(rn + 1)}
    ELSE {FG}
finish_round_task(rn, rid, redeliver) ==
    /\ Pending(FR(rn))
    /\ IF ~FrProceeds(rn)
       THEN /\ Ack(FR(rn), redeliver, {})
            /\ UNCHANGED <<game, rounds, players, unchecked, fired, users>>
       ELSE /\ rid \in RoundsNumbered(rn)
            /\ LET r == finish_round(game, rounds, players, answers, rid)
                   alive_count == Cardinality({p \in Players : ~r.players[p].is_eliminated})
               IN /\ game' = [r.game EXCEPT !.current_round = rn]
                  /\ rounds' = r.rounds
                  /\ players' = r.players
                  /\ unchecked' = IF IsFinale(players, rn) THEN Evaluated(rid) ELSE unchecked
                  /\ fired' = IF r.early_victory # NoUser THEN r.early_victory ELSE fired
                  /\ users' = IF r.early_victory # NoUser
                              THEN finish_game_users(users, r.players)
                              ELSE users
                  /\ Ack(FR(rn), redeliver, follow_up(alive_count, rn))
    /\ UNCHANGED <<displayed, clock, sentTo, answers, unused, collected, advEnq>>

(* ---- start_next_round_task ---- *)
start_next_round_task(rn, redeliver) ==
    /\ Pending(NR(rn))
    /\ create_round(rn, IF QuestionsFound > 0 THEN "in_progress" ELSE "not_started")
    /\ game' = IF QuestionsFound > 0 THEN [game EXCEPT !.current_round = rn] ELSE game
    /\ Ack(NR(rn), redeliver, IF QuestionsFound > 0 THEN {SQ(NewRoundId, 1)} ELSE {})
    /\ UNCHANGED <<clock, sentTo, answers, players, collected, unchecked, fired, users>>

(* ---- finish_game_task ---- *)
finish_game_task(redeliver) ==
    /\ Pending(FG)
    /\ players' = finish_game_players(players, NoUser)
    /\ users' = finish_game_users(users, finish_game_players(players, NoUser))
    /\ game' = finish_game_game(game)
    /\ Ack(FG, redeliver, {})
    /\ UNCHANGED <<rounds, displayed, clock, sentTo, answers, unused, collected, advEnq,
                   unchecked, fired>>

(* ---- check_early_victory_task ---- *)
check_early_victory_task(rid, redeliver) ==
    /\ Pending(EV(rid))
    /\ LET winner == check_early_victory(game, rounds, players, answers, rid)
       IN IF winner # NoUser
          THEN /\ players' = finish_game_players(players, winner)
               /\ game' = finish_game_game(game)
               /\ fired' = winner
               /\ users' = finish_game_users(users, finish_game_players(players, winner))
          ELSE UNCHANGED <<game, players, fired, users>>
    /\ unchecked' = Evaluated(rid)
    /\ Ack(EV(rid), redeliver, {})
    /\ UNCHANGED <<rounds, displayed, clock, sentTo, answers, unused, collected, advEnq>>

(* ---- scripts/cleanup_games.py cleanup_all_games: the script commits the    *)
(* cancellation, then purges the broker and revokes the jobs the workers hold ---- *)
cleanup_all_games ==
    /\ cleanup_pc = "idle"
    /\ cleanup_pc' = "committed"
    /\ IF game.status \in {"in_progress", "pre_start", "waiting"}
       THEN /\ game' = [game EXCEPT !.status = "cancelled", !.current_round = 0]
            /\ rounds' = [i \in RoundIds |-> [rounds[i] EXCEPT !.status = "finished"]]
       ELSE UNCHANGED <<game, rounds>>
    /\ UNCHANGED <<displayed, clock, sentTo, answers, players, queue, faults,
                   unused, collected, advEnq, unchecked, fired, users, runs, started, timers, edits, tx, rejected, elimIn, elimOut, telegram, sends, skipped, handoff, shuffles, replies>>
cleanup_purge ==
    /\ cleanup_pc = "committed"
    /\ cleanup_pc' = "purged"
    /\ queue' = {}
    /\ UNCHANGED <<game, rounds, displayed, clock, sentTo, answers, players, faults,
                   unused, collected, advEnq, unchecked, fired, users, runs, started, timers, edits, tx, rejected, elimIn, elimOut, telegram, sends, skipped, handoff, shuffles, replies>>

Next ==
    \/ \E r \in BOOLEAN : start_game_task(r) /\ UNCHANGED aux
    \/ \E rid \in RoundIds, q \in AllQuestions, r \in BOOLEAN : send_question_to_players(rid, q, r) /\ UNCHANGED aux
    \/ \E u \in Humans, rid \in RoundIds, q \in AllQuestions : handle_answer(u, rid, q) /\ UNCHANGED aux
    \/ \E rid \in RoundIds, q \in AllQuestions, r \in BOOLEAN : process_bot_answers(rid, q, r) /\ UNCHANGED aux
    \/ \E rid \in RoundIds, q \in AllQuestions, r \in BOOLEAN : collect_answers(rid, q, r) /\ UNCHANGED aux
    \/ \E rid \in RoundIds, q \in AllQuestions, r \in BOOLEAN : send_next_question(rid, q, r) /\ UNCHANGED aux
    \/ \E rn \in 1..ROUNDS_PER_GAME, rid \in RoundIds \cup {0}, r \in BOOLEAN :
          finish_round_task(rn, rid, r) /\ UNCHANGED aux
    \/ \E rn \in 1..ROUNDS_PER_GAME, r \in BOOLEAN : start_next_round_task(rn, r) /\ UNCHANGED aux
    \/ \E r \in BOOLEAN : finish_game_task(r) /\ UNCHANGED aux
    \/ \E rid \in RoundIds, r \in BOOLEAN : check_early_victory_task(rid, r) /\ UNCHANGED aux

(* two or three competitors and a bank that leaves one question for the finale *)
InitRosters ==
    /\ \E roster \in {Duo, Trio} : CreatedWith(roster, QUESTIONS_PER_ROUND + 1)
    /\ Idle
    /\ elimIn = <<>> /\ telegram = <<>>

(* two competitors and a bank of any size up to BankSize, the empty one included *)
InitBanks ==
    /\ \E bank \in 0..BankSize : CreatedWith(Duo, bank)
    /\ Idle
    /\ elimIn = <<>> /\ telegram = <<>>

(* two competitors and a bank that fills every round *)
InitFullBank ==
    /\ CreatedWith(Duo, ROUNDS_PER_GAME * QUESTIONS_PER_ROUND)
    /\ Idle
    /\ elimIn = <<>> /\ telegram = <<>>

(* the same jobs when the broker delivers every job once and every message *)
(* reaches its recipient                                                    *)
NextOnce ==
    \/ start_game_task(FALSE) /\ UNCHANGED <<faults, aux>>
    \/ \E rid \in RoundIds, q \in AllQuestions : send_question_to_players(rid, q, FALSE) /\ UNCHANGED <<faults, aux>>
    \/ \E u \in Humans, rid \in RoundIds, q \in AllQuestions : handle_answer(u, rid, q) /\ UNCHANGED aux
    \/ \E rid \in RoundIds, q \in AllQuestions : process_bot_answers(rid, q, FALSE) /\ UNCHANGED <<faults, aux>>
    \/ \E rid \in RoundIds, q \in AllQuestions : collect_answers(rid, q, FALSE) /\ UNCHANGED <<faults, aux>>
    \/ \E rid \in RoundIds, q \in AllQuestions : send_next_question(rid, q, FALSE) /\ UNCHANGED <<faults, aux>>
    \/ \E rn \in 1..ROUNDS_PER_GAME, rid \in RoundIds \cup {0} :
          finish_round_task(rn, rid, FALSE) /\ UNCHANGED <<faults, aux>>
    \/ \E rn \in 1..ROUNDS_PER_GAME : start_next_round_task(rn, FALSE) /\ UNCHANGED <<faults, aux>>
    \/ finish_game_task(FALSE) /\ UNCHANGED <<faults, aux>>
    \/ \E rid \in RoundIds : check_early_victory_task(rid, FALSE) /\ UNCHANGED <<faults, aux>>

(* ---- tasks/question_timer.py ---- *)
(* send_question_to_player hands the timer the recipient's Telegram id      *)
(* (user.telegram_id), which is not the User.id the Answer rows carry       *)
TelegramOf == [u \in HumanIds |-> "tg1"]
telegram_id(u) == TelegramOf[u]
UT(rid, q, chat, remaining) == [rid |-> rid, q |-> q, chat |-> chat, remaining |-> remaining]
(* start_question_timer: one job per delivered question message *)
start_question_timer(rid, q, u) ==
    /\ <<rid, q, u>> \in sentTo \ started
    /\ started' = started \cup {<<rid, q, u>>}
    /\ timers' = timers \cup {UT(rid, q, telegram_id(u), QUESTION_TIME_LIMIT)}
    /\ UNCHANGED <<game, rounds, displayed, clock, sentTo, answers, players, queue, faults,
                   unused, collected, advEnq, unchecked, fired, users, runs, edits,
                   cleanup_pc, tx, rejected, elimIn, elimOut, telegram, sends, skipped, handoff, shuffles, replies>>
(* update_question_timer: Answer.user_id == user_id is asked with the id    *)
(* the job was given; the next-question check is made only before           *)
(* re-scheduling                                                            *)
timer_user_answered(as, j) == existing_answer(as, j.rid, j.q, j.chat)
timer_superseded(j) ==
    /\ j.q + 1 \in QuestionsOf(j.rid)
    /\ displayed[<<j.rid, j.q + 1>>] # 0
timer_reschedules_always(as, j) == ~timer_user_answered(as, j) /\ ~timer_superseded(j)
timer_reschedules(as, j) ==
    j.remaining > 1 /\ ~timer_user_answered(as, j) /\ ~timer_superseded(j)
update_question_timer(j) ==
    /\ j \in timers
    /\ IF timer_user_answered(answers, j)
       THEN /\ timers' = timers \ {j}
            /\ UNCHANGED edits
       ELSE /\ edits' = edits \cup {<<j.rid, j.q, j.chat, j.remaining>>}
            /\ timers' = (timers \ {j}) \cup
                 (IF timer_reschedules(answers, j)
                  THEN {UT(j.rid, j.q, j.chat, j.remaining - 1)}
                  ELSE {})
    /\ UNCHANGED <<game, rounds, displayed, clock, sentTo, answers, players, queue, faults,
                   unused, collected, advEnq, unchecked, fired, users, runs, started,
                   cleanup_pc, tx, rejected, elimIn, elimOut, telegram, sends, skipped, handoff, shuffles, replies>>
(* the fault-free jobs together with the countdown timers *)
NextTimer ==
    \/ NextOnce
    \/ \E u \in Humans, rid \in RoundIds, q \in AllQuestions : start_question_timer(rid, q, u)
    \/ \E j \in timers : update_question_timer(j)

(* three competitors, one of them human *)
InitTrio ==
    /\ CreatedWith(Trio, QUESTIONS_PER_ROUND + 1)
    /\ Idle
    /\ elimIn = <<>> /\ telegram = <<>>
(* the worker runs every pending job; nobody is obliged to answer *)
RoundSlots == 1..(ROUNDS_PER_GAME + 1)
JobsOnce ==
    \/ start_game_task(FALSE)
    \/ finish_game_task(FALSE)
    \/ \E rid \in RoundIds : check_early_victory_task(rid, FALSE)
    \/ \E rid \in RoundIds, q \in AllQuestions : process_bot_answers(rid, q, FALSE)
    \/ \E rid \in RoundIds, q \in AllQuestions : collect_answers(rid, q, FALSE)
    \/ \E rid \in RoundIds, q \in AllQuestions : send_next_question(rid, q, FALSE)
    \/ \E rn \in 1..ROUNDS_PER_GAME, rid \in RoundIds \cup {0} : finish_round_task(rn, rid, FALSE)
    \/ \E rn \in 1..ROUNDS_PER_GAME : start_next_round_task(rn, FALSE)
FairOnce ==
    /\ WF_vars(JobsOnce /\ UNCHANGED <<faults, aux>>)
    /\ \A rid \in RoundSlots, q \in AllQuestions :
          WF_vars(send_question_to_players(rid, q, FALSE) /\ UNCHANGED <<faults, aux>>)

(* the fault-free jobs, except that the broker may deliver start_game_task *)
(* more than once                                                           *)
NextDupStart ==
    \/ NextOnce
    \/ start_game_task(TRUE) /\ UNCHANGED aux

(* the question loop of the first round with deliveries that may fail     *)
NextFlaky ==
    \/ start_game_task(FALSE) /\ UNCHANGED <<faults, aux>>
    \/ \E rid \in RoundIds, q \in AllQuestions : send_question_to_players(rid, q, FALSE) /\ UNCHANGED aux
    \/ \E u \in Humans, rid \in RoundIds, q \in AllQuestions : handle_answer(u, rid, q) /\ UNCHANGED aux
    \/ \E rid \in RoundIds, q \in AllQuestions : process_bot_answers(rid, q, FALSE) /\ UNCHANGED <<faults, aux>>
    \/ \E rid \in RoundIds, q \in AllQuestions : collect_answers(rid, q, FALSE) /\ UNCHANGED <<faults, aux>>
    \/ \E rid \in RoundIds, k \in AllQuestions : send_next_question(rid, k, FALSE) /\ UNCHANGED <<faults, aux>>

(* ---- matchmaking: tasks/pool_dispatcher.py, tasks/vote_dispatcher.py ---- *)
GP == Job("start_game_from_pool", 0, 0)
GV == Job("process_game_vote", 0, 0)
Votes == {"none", "wait", "start_now"}
(* start_game_from_pool: with the active-games limit reached nothing is    *)
(* created; otherwise create_game (status waiting), the pool's players are *)
(* added, status is set to in_progress, the session commits and            *)
(* start_game_task is enqueued                                             *)
start_game_from_pool(limit_reached) ==
    /\ Pending(GP)
    /\ IF limit_reached
       THEN /\ queue' = queue \ {GP}
            /\ UNCHANGED <<game, players, handoff, shuffles, replies>>
       ELSE /\ game' = [NoGame EXCEPT !.status = "in_progress"]
            /\ players' = [p \in HumanIds |-> NewPlayer]
            /\ queue' = (queue \ {GP}) \cup {SG}
            /\ handoff' = "pool"
    /\ UNCHANGED <<rounds, displayed, clock, sentTo, answers, faults, unused, collected,
                   advEnq, unchecked, fired, users, runs, started, timers, edits,
                   cleanup_pc, tx, rejected, elimIn, elimOut, telegram, sends, skipped, shuffles, replies>>
(* process_game_vote: only for a pre_start game; a missing vote counts as  *)
(* agreement to start; when every human voted wait the game is cancelled,  *)
(* otherwise bots fill the roster, status is set to in_progress, the       *)
(* session commits and start_game_task is enqueued                         *)
all_wait(vote) == \A u \in Humans : vote[u] = "wait"
process_game_vote(vote) ==
    /\ Pending(GV)
    /\ IF game.status # "pre_start"
       THEN /\ queue' = queue \ {GV}
            /\ UNCHANGED <<game, players, handoff, shuffles, replies>>
       ELSE IF all_wait(vote)
       THEN /\ game' = [game EXCEPT !.status = "cancelled"]
            /\ queue' = queue \ {GV}
            /\ UNCHANGED <<players, handoff, shuffles, replies>>
       ELSE /\ game' = [game EXCEPT !.status = "in_progress"]
            /\ players' = [p \in Players \cup BotIds |->
                             IF p \in Players THEN players[p] ELSE NewPlayer]
            /\ queue' = (queue \ {GV}) \cup {SG}
            /\ handoff' = "vote"
    /\ UNCHANGED <<rounds, displayed, clock, sentTo, answers, faults, unused, collected,
                   advEnq, unchecked, fired, users, runs, started, timers, edits,
                   cleanup_pc, tx, rejected, elimIn, elimOut, telegram, sends, skipped, shuffles, replies>>
(* a game arrives from the pool (no Game row yet), from a vote (pre_start, *)
(* humans only, process_game_vote scheduled) or directly with its          *)
(* start_game_task already enqueued                                        *)
InitMatch ==
    /\ \/ Created
       \/ CreatedAs(NoGame, {GP}, {}, BankSize)
       \/ CreatedAs([NoGame EXCEPT !.status = "pre_start"], {GV}, HumanIds, BankSize)
    /\ Idle
    /\ elimIn = <<>> /\ telegram = <<>>
NextMatch ==
    \/ NextOnce
    \/ \E l \in BOOLEAN : start_game_from_pool(l)
    \/ \E vote \in [HumanIds -> Votes] : process_game_vote(vote)

(* ---- GameEngine._shuffle_question_options and the answer callback ---- *)
(* str.upper() on an option letter *)
Upper(c) == CASE c = "a" -> "A" [] c = "b" -> "B" [] OTHER -> c
(* a question of the bank: the letters whose option text is set, in the    *)
(* order A, B, C, D, and the stored correct_option                         *)
QuestionBank == {[letters |-> <<"A", "B">>, correct_option |-> "b"]}
Perms(n) == {f \in [1..n -> 1..n] : \A i, j \in 1..n : f[i] = f[j] => i = j}
(* random.shuffle put original option perm[i] at position i; the mapping   *)
(* sends the letter of position i to the letter of that original option;   *)
(* the correct letter is the position that shows the original correct      *)
(* option, or the original letter when no position does                    *)
shuffle_question_options(question, perm) ==
    LET n == Len(question.letters)
        correct_original == Upper(question.correct_option)
        shuffled_mapping == [l \in {question.letters[i] : i \in 1..n} |->
                               LET i == CHOOSE k \in 1..n : question.letters[k] = l
                               IN question.letters[perm[i]]]
        hits == {l \in DOMAIN shuffled_mapping : shuffled_mapping[l] = correct_original}
    IN [shuffled_options |-> shuffled_mapping,
        correct_option_shuffled |-> IF hits = {} THEN correct_original
                                    ELSE CHOOSE l \in hits : TRUE]
(* the RoundQuestion rows _create_round can write: the question and what   *)
(* the shuffle returned for it                                             *)
Instances ==
    {[question |-> qn, shuffle |-> shuffle_question_options(qn, perm)] :
        qn \in QuestionBank, perm \in Perms(2)}
(* handle_answer, game_handlers.py 96-106 *)
has_shuffled(rq) ==
    /\ DOMAIN rq.shuffle.shuffled_options # {}
    /\ rq.shuffle.correct_option_shuffled # ""
answer_correct_option_original(rq) == Upper(rq.question.correct_option)
answer_correct_option(rq) ==
    IF has_shuffled(rq) THEN Upper(rq.shuffle.correct_option_shuffled)
    ELSE Upper(rq.question.correct_option)
(* the checks of handle_answer in the order the handler makes them *)
answer_reply(u, rid, q) ==
    IF rounds[rid].status # "in_progress" THEN "time_expired"
    ELSE IF existing_answer(answers, rid, q, u) THEN "already_answered"
    ELSE IF u \notin Players \/ players[u].is_eliminated THEN "not_in_game"
    ELSE "recorded"
(* the callback of an answer button: any known user may send any           *)
(* round_question_id and option letter; answer_time is 0 when the instance *)
(* has no displayed_at                                                     *)
Callers == HumanIds \cup {"x1"}
Selections == {"a", "B"}
answer_callback(u, rid, q, selected) ==
    /\ rid \in RoundIds /\ q \in QuestionsOf(rid)
    /\ replies' = [user |-> u, rid |-> rid, q |-> q, reply |-> answer_reply(u, rid, q)]
    /\ IF answer_reply(u, rid, q) # "recorded"
       THEN UNCHANGED <<answers, players, unchecked, queue>>
       ELSE /\ \E t \in (IF displayed[<<rid, q>>] # 0 THEN HumanTimes ELSE {0}) :
                 LET c == Upper(selected) = answer_correct_option(shuffles[<<rid, q>>])
                     rows == {AnswerRow(answers, rid, q, u, c, t)}
                 IN /\ answers' = answers \cup rows
                    /\ players' = WithStats(players, rows)
                    /\ unchecked' = unchecked \cup Recorded(rows, rid)
            /\ queue' = IF game.is_final_stage THEN queue \cup {EV(rid)} ELSE queue
    /\ UNCHANGED <<game, rounds, displayed, clock, sentTo, faults, unused, collected, advEnq,
                   fired, users, runs, started, timers, edits, cleanup_pc, tx, rejected,
                   elimIn, elimOut, telegram, sends, skipped, handoff, shuffles>>
(* main.py handle_leave_game: the player is marked as having left and as   *)
(* eliminated, whatever the state of the game                              *)
handle_leave_game(u) ==
    /\ u \in Players
    /\ ~players[u].left_game
    /\ players' = [players EXCEPT ![u].left_game = TRUE, ![u].is_eliminated = TRUE]
    /\ UNCHANGED <<game, rounds, displayed, clock, sentTo, answers, queue, faults, unused,
                   collected, advEnq, unchecked, fired, users, runs>>
(* the first round from start_game_task to finish_round_task, the human    *)
(* free to press any answer button and to leave; the shuffles of the       *)
(* round's question-instances are drawn with the game                      *)
InitAnswer ==
    /\ Created
    /\ Quiet
    /\ shuffles \in [{1} \X AllQuestions -> Instances]
    /\ elimIn = <<>> /\ telegram = <<>>
NextAnswer ==
    \/ start_game_task(FALSE) /\ UNCHANGED <<faults, aux>>
    \/ \E q \in AllQuestions : send_question_to_players(1, q, FALSE) /\ UNCHANGED <<faults, aux>>
    \/ \E u \in Callers, q \in AllQuestions, selected \in Selections : answer_callback(u, 1, q, selected)
    \/ \E u \in HumanIds : handle_leave_game(u) /\ UNCHANGED aux
    \/ \E q \in AllQuestions : process_bot_answers(1, q, FALSE) /\ UNCHANGED <<faults, aux>>
    \/ \E q \in AllQuestions : collect_answers(1, q, FALSE) /\ UNCHANGED <<faults, aux>>
    \/ \E k \in AllQuestions : send_next_question(1, k, FALSE) /\ UNCHANGED <<faults, aux>>
    \/ \E rid \in {0, 1} : finish_round_task(1, rid, FALSE) /\ UNCHANGED <<faults, aux>>

(* the first round's questions with failing deliveries, together with the *)
(* countdown timers of the delivered messages                              *)
NextCountdown ==
    \/ NextFlaky
    \/ \E u \in Humans, rid \in RoundIds, q \in AllQuestions : start_question_timer(rid, q, u)
    \/ \E j \in timers : update_question_timer(j)

(* the question loop of the first round: its jobs run fault-free, except  *)
(* that the broker may deliver send_next_question more than once; the      *)
(* finish_round_task the loop ends with is left pending                    *)
NextDupAdvance ==
    \/ start_game_task(FALSE) /\ UNCHANGED <<faults, aux>>
    \/ \E rid \in RoundIds, q \in AllQuestions : send_question_to_players(rid, q, FALSE) /\ UNCHANGED <<faults, aux>>
    \/ \E u \in Humans, rid \in RoundIds, q \in AllQuestions : handle_answer(u, rid, q) /\ UNCHANGED aux
    \/ \E rid \in RoundIds, q \in AllQuestions : process_bot_answers(rid, q, FALSE) /\ UNCHANGED <<faults, aux>>
    \/ \E rid \in RoundIds, q \in AllQuestions : collect_answers(rid, q, FALSE) /\ UNCHANGED <<faults, aux>>
    \/ \E rid \in RoundIds, k \in AllQuestions, r \in BOOLEAN : send_next_question(rid, k, r) /\ UNCHANGED aux

(* ======================= concurrent sessions ======================= *)
(* The three writers of Answer rows, each split where its session commits: *)
(* the reads (existing-answer check, the GamePlayer rows loaded) happen at  *)
(* begin, the INSERTs and the UPDATE of the loaded totals at commit.        *)
Loaded(pl, us) == [u \in us |-> [total_score |-> pl[u].total_score,
                                 total_time |-> pl[u].total_time]]
Session(op, rid, q, ins, final) ==
    [op |-> op, rid |-> rid, q |-> q, ins |-> ins, final |-> final,
     base |-> Loaded(players, {i.user : i \in ins})]
Ins(rows) == {[user |-> r.user, is_correct |-> r.is_correct, answer_time |-> r.answer_time]
              : r \in rows}
Open(t) == /\ Cardinality(tx) < MaxTx
           /\ t \notin tx
           /\ tx' = tx \cup {t}

begin_handle_answer(u, rid, q) ==
    /\ <<rid, q, u>> \in sentTo
    /\ rounds[rid].status = "in_progress"
    /\ ~existing_answer(answers, rid, q, u)
    /\ ~players[u].is_eliminated
    /\ \E c \in BOOLEAN, t \in HumanTimes :
         Open(Session("handle_answer", rid, q,
                      Ins({AnswerRow(answers, rid, q, u, c, t)}), game.is_final_stage))
    /\ UNCHANGED <<game, rounds, displayed, clock, sentTo, answers, players, queue, faults,
                   unused, collected, advEnq, unchecked, fired, users, runs, started, timers, edits, cleanup_pc, rejected, elimIn, elimOut, telegram, sends, skipped, handoff, shuffles, replies>>

begin_process_bot_answers(rid, q, redeliver) ==
    /\ Pending(PB(rid, q))
    /\ \E f \in [BotsToAnswer(answers, players, rid, q) -> BOOLEAN \X BotTimes] :
         Open(Session("process_bot_answers", rid, q,
                      Ins(BotRows(answers, players, rid, q, f)), FALSE))
    /\ Ack(PB(rid, q), redeliver, {})
    /\ UNCHANGED <<game, rounds, displayed, clock, sentTo, answers, players,
                   unused, collected, advEnq, unchecked, fired, users, started, timers, edits, cleanup_pc, rejected, elimIn, elimOut, telegram, sends, skipped, handoff, shuffles, replies>>

begin_collect_answers(rid, q, redeliver) ==
    /\ Pending(CA(rid, q))
    /\ Open(Session("collect_answers", rid, q,
                    Ins(TimeoutRows(answers, players, rid, q)), FALSE))
    /\ Ack(CA(rid, q), redeliver, {})
    /\ UNCHANGED <<game, rounds, displayed, clock, sentTo, answers, players,
                   unused, collected, advEnq, unchecked, fired, users, started, timers, edits, cleanup_pc, rejected, elimIn, elimOut, telegram, sends, skipped, handoff, shuffles, replies>>

(* rows of session t as the database stores them now *)
RowsOf(t) == {AnswerRow(answers, t.rid, t.q, i.user, i.is_correct, i.answer_time) : i \in t.ins}
(* UPDATE game_players SET total_score, total_time = the loaded value + the increment *)
Flushed(t) ==
    LET rows == RowsOf(t)
    IN [p \in Players |->
          IF p \in DOMAIN t.base
          THEN [players[p] EXCEPT !.total_score = t.base[p].total_score + ScoreOf(rows, p),
                                  !.total_time = t.base[p].total_time + TimeOf(rows, p)]
          ELSE players[p]]
(* session.commit() of an open session and what its handler does after it. *)
(* An INSERT the database refuses raises out of the handler: the session is *)
(* rolled back and nothing after the commit runs.                           *)
(* the winner process_bot_answers finds after its commit *)
TxWinner(t) ==
    IF t.op = "process_bot_answers" /\ ~uq_answer_violated(answers, RowsOf(t))
    THEN check_early_victory(game, rounds, Flushed(t), answers \cup RowsOf(t), t.rid)
    ELSE NoUser
commit(t) ==
    /\ t \in tx
    /\ tx' = tx \ {t}
    /\ IF uq_answer_violated(answers, RowsOf(t))
       THEN /\ rejected' = rejected \cup
                   {<<t.rid, t.q, i.user>> : i \in {x \in t.ins :
                        existing_answer(answers, t.rid, t.q, x.user)}}
            /\ UNCHANGED <<game, answers, players, queue, collected>>
       ELSE /\ answers' = answers \cup RowsOf(t)
            /\ UNCHANGED rejected
            /\ IF t.op = "handle_answer"
               THEN /\ players' = Flushed(t)
                    /\ queue' = IF t.final THEN queue \cup {EV(t.rid)} ELSE queue
                    /\ UNCHANGED <<game, collected>>
               ELSE IF t.op = "process_bot_answers"
               THEN LET winner == TxWinner(t)
                    IN /\ IF winner # NoUser
                          THEN /\ players' = finish_game_players(Flushed(t), winner)
                               /\ game' = finish_game_game(game)
                          ELSE /\ players' = Flushed(t)
                               /\ UNCHANGED game
                       /\ UNCHANGED <<queue, collected>>
               ELSE /\ players' = Flushed(t)
                    /\ queue' = IF next_already_displayed(t.rid, t.q) THEN queue
                                ELSE queue \cup {SN(t.rid, t.q)}
                    /\ collected' = collected \cup {<<t.rid, t.q>>}
                    /\ UNCHANGED game
    /\ fired' = IF TxWinner(t) # NoUser THEN TxWinner(t) ELSE fired
    /\ users' = IF TxWinner(t) # NoUser
                THEN finish_game_users(users, finish_game_players(Flushed(t), TxWinner(t)))
                ELSE users
    /\ UNCHANGED <<rounds, displayed, clock, sentTo, faults, unused, advEnq, unchecked,
                   runs, started, timers, edits, cleanup_pc, elimIn, elimOut, telegram, sends, skipped, handoff, shuffles, replies>>

(* The game right after start_game_task and the first broadcast of round 1, *)
(* question 1: the human holds the question, the bots' and the collecting   *)
(* job are pending.                                                         *)
QuestionOneShown ==
    /\ game = [status |-> "in_progress", current_round |-> 1, is_final_stage |-> FALSE]
    /\ rounds = <<[round_number |-> 1, status |-> "in_progress", nq |-> QUESTIONS_PER_ROUND,
                   parent_round_id |-> 0]>>
    /\ displayed = [k \in {1} \X AllQuestions |-> IF k[2] = 1 THEN 1 ELSE 0]
    /\ clock = 1
    /\ sentTo = {<<1, 1, u>> : u \in Duo \cap HumanIds}
    /\ answers = {}
    /\ players = [p \in Duo |-> NewPlayer]
    /\ queue = {PB(1, 1), CA(1, 1)}
    /\ faults = 0
    /\ unused = BankSize - QUESTIONS_PER_ROUND
    /\ collected = {}
    /\ advEnq = [k \in {1} \X AllQuestions |-> 0]
    /\ unchecked = {}
    /\ fired = NoUser
    /\ runs = <<>>
    /\ users = [u \in HumanIds |-> NewUser]
InitTx == QuestionOneShown /\ Idle /\ elimIn = <<>> /\ telegram = <<>>

NextTx ==
    \/ \E u \in Humans, rid \in RoundIds, q \in AllQuestions : begin_handle_answer(u, rid, q)
    \/ \E rid \in RoundIds, q \in AllQuestions, r \in BOOLEAN : begin_process_bot_answers(rid, q, r)
    \/ \E rid \in RoundIds, q \in AllQuestions, r \in BOOLEAN : begin_collect_answers(rid, q, r)
    \/ \E t \in tx : commit(t)

(* the overlapping sessions of the writers across the questions of the     *)
(* first round: the advance job and the broadcast run in between           *)
NextLedger ==
    \/ NextTx
    \/ \E k \in AllQuestions : send_next_question(1, k, FALSE) /\ UNCHANGED <<faults, aux>>
    \/ \E q \in AllQuestions : send_question_to_players(1, q, FALSE) /\ UNCHANGED <<faults, aux>>

(* ============ send_next_question under its lock on the Round row ========= *)
(* with_for_update(nowait=True): the SELECT raises OperationalError while   *)
(* another open session holds the row; the job logs and returns.  Whoever   *)
(* gets the row runs the checks and the apply_async calls and releases it   *)
(* at the end of its session.                                               *)
RowLocked(rid) == \E t \in tx : t.op = "send_next_question" /\ t.rid = rid
begin_send_next_question(rid, k, redeliver) ==
    /\ Pending(SN(rid, k))
    /\ Ack(SN(rid, k), redeliver, {})
    /\ IF RowLocked(rid)
       THEN /\ skipped' = skipped \cup {<<rid, k>>}
            /\ UNCHANGED tx
       ELSE /\ Open(Session("send_next_question", rid, k, {}, FALSE))
            /\ UNCHANGED skipped
    /\ UNCHANGED <<game, rounds, displayed, clock, sentTo, answers, players,
                   unused, collected, advEnq, unchecked, fired, users, started, timers,
                   edits, cleanup_pc, rejected, elimIn, elimOut, telegram, sends, handoff, shuffles, replies>>
end_send_next_question(t) ==
    /\ t \in tx
    /\ t.op = "send_next_question"
    /\ tx' = tx \ {t}
    /\ queue' = queue \cup SnEnqueues(t.rid, t.q)
    /\ advEnq' = SnAdvEnq(t.rid, t.q)
    /\ UNCHANGED <<game, rounds, displayed, clock, sentTo, answers, players, faults,
                   unused, collected, unchecked, fired, users, runs, started, timers,
                   edits, cleanup_pc, rejected, elimIn, elimOut, telegram, sends, skipped, handoff, shuffles, replies>>
(* the question loop of the first round from its first displayed question;  *)
(* the broker may deliver send_next_question more than once                 *)
JobSQ(q) == send_question_to_players(1, q, FALSE) /\ UNCHANGED <<faults, aux>>
JobPB(q) == process_bot_answers(1, q, FALSE) /\ UNCHANGED <<faults, aux>>
JobCA(q) == collect_answers(1, q, FALSE) /\ UNCHANGED <<faults, aux>>
NextLock ==
    \/ \E q \in AllQuestions : JobSQ(q)
    \/ \E u \in Humans, q \in AllQuestions : handle_answer(u, 1, q) /\ UNCHANGED aux
    \/ \E q \in AllQuestions : JobPB(q)
    \/ \E q \in AllQuestions : JobCA(q)
    \/ \E k \in AllQuestions, r \in BOOLEAN : begin_send_next_question(1, k, r)
    \/ \E t \in tx : end_send_next_question(t)
(* the worker runs every pending job and every open session ends *)
FairLock ==
    /\ \A q \in AllQuestions : /\ WF_vars(JobSQ(q))
                                /\ WF_vars(JobPB(q))
                                /\ WF_vars(JobCA(q))
                                /\ WF_vars(begin_send_next_question(1, q, FALSE))
    /\ WF_vars(\E t \in tx : end_send_next_question(t))

(* ======================= the elimination rule alone ======================= *)
UserIds == <<"u1", "u2", "u3", "u4">>
CorrectCounts == {3, 5}
RoundTimes == {8, 10, 12}
ResultLists ==
    UNION {[1..n -> [user_id : {NoUser}, correct_answers : CorrectCounts,
                     total_time : RoundTimes]] : n \in 1..MaxLen}
InitElim ==
    /\ Created
    /\ Idle
    /\ \E l \in ResultLists :
         elimIn = [i \in 1..Len(l) |-> [l[i] EXCEPT !.user_id = UserIds[i]]]
    /\ telegram = <<>>
call_determine_eliminated_player ==
    /\ elimOut = NotCalled
    /\ elimOut' = determine_eliminated_player(elimIn)
    /\ UNCHANGED <<game, rounds, displayed, clock, sentTo, answers, players, queue, faults,
                   unused, collected, advEnq, unchecked, fired, users, runs, started, timers, edits, cleanup_pc, tx, rejected, elimIn, telegram, sends, skipped, handoff, shuffles, replies>>
NextElim == call_determine_eliminated_player

(* C34: whenever two or more candidates remain after the minimum-correct   *)
(* and maximum-time filters, the call answers with a tie-break and         *)
(* eliminates nobody: the slowest-of-candidates fallback is never taken    *)
Remaining == candidates_by_time(candidates_by_score(elimIn))
C34_FallbackUnreachable ==
    (elimOut # NotCalled /\ Len(elimIn) > 0 /\ Len(Remaining) >= 2) =>
        elimOut = Verdict(NoUser, TRUE)
C34_Witness ==
    /\ elimOut # NotCalled
    /\ Len(candidates_by_score(elimIn)) = 3
    /\ Len(Remaining) = 2

(* ================= delivery of one question, alone ====================== *)
(* retry_with_backoff: calls[i] is how the i-th invocation of the wrapped  *)
(* function ends, [raised, value]; the loop returns the first value that   *)
(* comes back without one of the listed exceptions, sleeps min(delay,      *)
(* max_delay) and doubles delay after a raise, and re-raises at the last   *)
(* attempt                                                                 *)
RETRY_MAX_DELAY == 60
RETRY_EXPONENTIAL_BASE == 2
RECURSIVE retry_loop(_, _, _, _, _)
retry_loop(calls, max_attempts, attempt, delay, slept) ==
    IF ~calls[attempt].raised
    THEN [raised |-> FALSE, value |-> calls[attempt].value,
          attempts |-> attempt, slept |-> slept]
    ELSE IF attempt = max_attempts
         THEN [raised |-> TRUE, value |-> FALSE, attempts |-> attempt, slept |-> slept]
         ELSE retry_loop(calls, max_attempts, attempt + 1, delay * RETRY_EXPONENTIAL_BASE,
                         Append(slept, IF delay < RETRY_MAX_DELAY THEN delay
                                       ELSE RETRY_MAX_DELAY))
retry_with_backoff(max_attempts, base_delay, calls) ==
    retry_loop(calls, max_attempts, 1, base_delay, <<>>)
(* the body of send_question_to_player: Bot.send_message ends as outcome;  *)
(* except TelegramError / except Exception: return False, so nothing is    *)
(* raised to the caller                                                    *)
SendOutcomes == {"ok", "TelegramError"}
send_question_to_player(outcome) == [raised |-> FALSE, value |-> outcome = "ok"]
(* @telegram_retry around send_question_to_player *)
telegram_retry(outcomes) ==
    retry_with_backoff(TELEGRAM_RETRY_ATTEMPTS, TELEGRAM_RETRY_BACKOFF_BASE,
                       [i \in 1..Len(outcomes) |-> send_question_to_player(outcomes[i])])
Chats == {"tg1", "tg2"}
InitRetry ==
    /\ Created
    /\ Idle
    /\ elimIn = <<>>
    /\ telegram \in [Chats -> [1..TELEGRAM_RETRY_ATTEMPTS -> SendOutcomes]]
(* send_question_to_all_players: one decorated call per recipient, results *)
(* collected per telegram id                                               *)
send_question_to_all_players ==
    /\ sends = <<>>
    /\ sends' = [c \in Chats |-> telegram_retry(telegram[c])]
    /\ UNCHANGED <<game, rounds, displayed, clock, sentTo, answers, players, queue, faults,
                   unused, collected, advEnq, unchecked, fired, users, runs, started, timers,
                   edits, cleanup_pc, tx, rejected, elimIn, elimOut, telegram, skipped, handoff, shuffles, replies>>
NextRetry == send_question_to_all_players

(* ======================= the tie-break rule alone ======================= *)
(* tie_break_results: sequence of [user_id, is_correct, answer_time], *)
(* answer_time = NoTime for None (not answered)                       *)
NoTime == -1
TieVerdict(u, exc) == [eliminated |-> u, raised |-> exc]
(* "if answer_time is None: answer_time = Decimal(time_limit); is_correct = False" *)
Normalised(r) ==
    IF r.answer_time = NoTime
    THEN [r EXCEPT !.answer_time = TIE_BREAK_TIME_LIMIT, !.is_correct = FALSE]
    ELSE r
correct_players(rs) ==
    SelectSeq([i \in 1..Len(rs) |-> Normalised(rs[i])], LAMBDA r : r.is_correct)
wrong_players_all(rs) == [i \in 1..Len(rs) |-> Normalised(rs[i])]
wrong_players(rs) ==
    SelectSeq([i \in 1..Len(rs) |-> Normalised(rs[i])], LAMBDA r : ~r.is_correct)
(* max(ps, key = answer_time): the first of the maximal elements *)
max_by_answer_time_fastest(ps) ==
    ps[CHOOSE i \in 1..Len(ps) :
          /\ \A j \in 1..Len(ps) : ps[i].answer_time <= ps[j].answer_time
          /\ \A j \in 1..(i - 1) : ps[j].answer_time > ps[i].answer_time]
max_by_answer_time(ps) ==
    ps[CHOOSE i \in 1..Len(ps) :
          /\ \A j \in 1..Len(ps) : ps[j].answer_time <= ps[i].answer_time
          /\ \A j \in 1..(i - 1) : ps[j].answer_time < ps[i].answer_time]
(* max(tie_break_results, key = r.get('answer_time', time_limit)): the key  *)
(* of a result that carries answer_time = None is None, and comparing None  *)
(* with another key raises TypeError                                        *)
max_of_results(rs) ==
    IF Len(rs) >= 2 /\ \E i \in 1..Len(rs) : rs[i].answer_time = NoTime
    THEN TieVerdict(NoUser, "TypeError")
    ELSE TieVerdict(max_by_answer_time(rs).user_id, "")
determine_tie_break_eliminated(rs) ==
    IF Len(rs) = 0 THEN TieVerdict(NoUser, "ValueError")
    ELSE IF Len(correct_players(rs)) = 0 THEN max_of_results(rs)
    ELSE IF Len(correct_players(rs)) = 1
         THEN IF Len(wrong_players(rs)) > 0
              THEN TieVerdict(max_by_answer_time(wrong_players(rs)).user_id, "")
              ELSE max_of_results(rs)
    ELSE TieVerdict(max_by_answer_time(correct_players(rs)).user_id, "")

TieTimes == {3, 4, TIE_BREAK_TIME_LIMIT}
TieLists ==
    UNION {[1..n -> [user_id : {NoUser}, is_correct : BOOLEAN,
                     answer_time : TieTimes \cup {NoTime}]] : n \in 0..MaxLen}
InitTie ==
    /\ Created
    /\ Idle
    /\ \E l \in TieLists :
         elimIn = [i \in 1..Len(l) |-> [l[i] EXCEPT !.user_id = UserIds[i]]]
    /\ telegram = <<>>
call_determine_tie_break_eliminated ==
    /\ elimOut = NotCalled
    /\ elimOut' = determine_tie_break_eliminated(elimIn)
    /\ UNCHANGED <<game, rounds, displayed, clock, sentTo, answers, players, queue, faults,
                   unused, collected, advEnq, unchecked, fired, users, runs, started, timers, edits, cleanup_pc, tx, rejected, elimIn, telegram, sends, skipped, handoff, shuffles, replies>>
NextTie == call_determine_tie_break_eliminated

(* ======================= check_early_victory alone ======================= *)
(* the arguments are the rows the function reads: the Round, the roster's   *)
(* is_eliminated flags and the Answer rows of the round; every competitor   *)
(* has answered each question-instance at most once                         *)
Outcomes == {"none", "correct", "wrong"}
InitEarly ==
    /\ Idle
    /\ elimIn = <<>> /\ telegram = <<>>
    /\ \E rn \in 1..ROUNDS_PER_GAME, n \in 1..QUESTIONS_PER_ROUND, E \in SUBSET Trio,
          o \in [AllQuestions \X Duo -> Outcomes], o3 \in Outcomes :
         /\ \A k \in DOMAIN o : k[1] > n => o[k] = "none"
         /\ game = [status |-> "in_progress", current_round |-> rn, is_final_stage |-> FALSE]
         /\ rounds = [i \in 1..rn |->
                        [round_number |-> i,
                         status |-> IF i < rn THEN "finished" ELSE "in_progress",
                         nq |-> n, parent_round_id |-> 0]]
         /\ players = [p \in Trio |-> [NewPlayer EXCEPT !.is_eliminated = (p \in E)]]
         /\ answers =
              {AnswerRow({}, rn, k[1], k[2], o[k] = "correct", 1) :
                  k \in {x \in DOMAIN o : o[x] # "none"}}
              \cup (IF o3 = "none" THEN {}
                    ELSE {AnswerRow({}, rn, 1, "b2", o3 = "correct", 1)})
    /\ displayed = <<>>
    /\ clock = 0
    /\ sentTo = {}
    /\ queue = {}
    /\ faults = 0
    /\ unused = 0
    /\ collected = {}
    /\ advEnq = <<>>
    /\ unchecked = {}
    /\ fired = NoUser
    /\ runs = <<>>
    /\ users = [u \in HumanIds |-> NewUser]
call_check_early_victory ==
    /\ elimOut = NotCalled
    /\ elimOut' = [winner |-> check_early_victory(game, rounds, players, answers, Len(rounds))]
    /\ UNCHANGED <<game, rounds, displayed, clock, sentTo, answers, players, queue, faults,
                   unused, collected, advEnq, unchecked, fired, users, runs, started, timers, edits, cleanup_pc, tx, rejected, elimIn, telegram, sends, skipped, handoff, shuffles, replies>>
NextEarly == call_check_early_victory

(* ======================= claims ======================= *)

(* C1: in every round the question-instances whose displayed_at is set form *)
(* a gap-free prefix of the question numbers and their displayed_at values  *)
(* are strictly increasing in question_number, whatever jobs are redelivered *)
C1_DisplayedPrefixIncreasing ==
    \A rid \in RoundIds : \A q \in QuestionsOf(rid) :
        displayed[<<rid, q>>] # 0 =>
            \A p \in 1..(q - 1) : /\ displayed[<<rid, p>>] # 0
                                  /\ displayed[<<rid, p>>] < displayed[<<rid, q>>]

(* C2: at no time do two Answer rows exist for the same question-instance  *)
(* and competitor, however the answer callback, process_bot_answers and    *)
(* collect_answers overlap or are redelivered                              *)
C2_OneAnswerPerKey ==
    \A x \in answers, y \in answers :
        (x.rid = y.rid /\ x.q = y.q /\ x.user = y.user) => x = y
C2_Witness ==
    \E k \in rejected : Cardinality(AnswersOf(answers, k[1], k[2], k[3])) = 1

(* C3: for every question-instance at most one send_question_to_players job *)
(* is ever enqueued by send_next_question                                    *)
C3_AdvancedOnce == \A k \in DOMAIN advEnq : advEnq[k] <= 1

(* C4: for every round_number at most one competitor is marked eliminated   *)
(* by the finish processing of that round                                   *)
EliminatedIn(rn) ==
    {p \in Players : players[p].is_eliminated /\ players[p].eliminated_round = rn}
C4_OneEliminationPerRound ==
    \A rn \in 1..ROUNDS_PER_GAME : Cardinality(EliminatedIn(rn)) <= 1

(* C5: once the game's status is cancelled, every job executed afterwards   *)
(* is a no-op: no Answer, no displayed_at, no delivery, no change of a      *)
(* competitor, a Round or the Game, and no job enqueued                     *)
HandleAnswerStep ==
    \E u \in Humans, rid \in RoundIds, q \in AllQuestions : handle_answer(u, rid, q)
C5_CancelledJobsNoOp ==
    [][(game.status = "cancelled" /\ ~HandleAnswerStep) =>
          /\ UNCHANGED <<game, rounds, displayed, sentTo, answers, players>>
          /\ queue' \subseteq queue]_vars

(* C6: collect_answers executed again for a question-instance it has already *)
(* completed for creates no Answer, changes no competitor and enqueues no    *)
(* send_next_question                                                        *)
C6_CollectIdempotent ==
    [][\A rid \in RoundIds, q \in AllQuestions :
          (<<rid, q>> \in collected /\ \E r \in BOOLEAN : collect_answers(rid, q, r)) =>
              /\ answers' = answers
              /\ players' = players
              /\ (SN(rid, q) \in queue' => SN(rid, q) \in queue)]_vars

(* C7: once a question-instance's displayed_at is set its value never changes *)
C7_DisplayedWriteOnce ==
    [][\A k \in DOMAIN displayed : displayed[k] # 0 => displayed'[k] = displayed[k]]_vars

(* C8: at most one Round row per (game, round_number) *)
C8_OneRoundPerNumber ==
    \A i \in RoundIds, j \in RoundIds :
        rounds[i].round_number = rounds[j].round_number => i = j

(* C9: determine_eliminated_player eliminates the unique competitor with the *)
(* minimum correct count; with several at the minimum it eliminates the one  *)
(* with the unique maximum time among them, without tie-break; and whoever   *)
(* it eliminates has the minimum correct count                               *)
WithMinCorrect(rs) ==
    {i \in 1..Len(rs) : \A j \in 1..Len(rs) : rs[i].correct_answers <= rs[j].correct_answers}
SlowestWithMinCorrect(rs) ==
    {i \in WithMinCorrect(rs) :
        \A j \in WithMinCorrect(rs) : rs[j].total_time <= rs[i].total_time}
C9_EliminationRule ==
    elimOut # NotCalled =>
        LET M == WithMinCorrect(elimIn)
            S == SlowestWithMinCorrect(elimIn)
        IN /\ Cardinality(M) = 1 =>
                 elimOut = Verdict(elimIn[CHOOSE i \in M : TRUE].user_id, FALSE)
           /\ (Cardinality(M) > 1 /\ Cardinality(S) = 1) =>
                 elimOut = Verdict(elimIn[CHOOSE i \in S : TRUE].user_id, FALSE)
           /\ elimOut.eliminated # NoUser =>
                 \E i \in M : elimIn[i].user_id = elimOut.eliminated
C9_Witness ==
    /\ Len(elimIn) = 3
    /\ [i \in 1..3 |-> elimIn[i].correct_answers] = <<3, 3, 5>>
    /\ [i \in 1..3 |-> elimIn[i].total_time] = <<10, 12, 8>>
    /\ elimOut = Verdict("u2", FALSE)

(* C11: with exactly one competitor who answered correctly and at least one *)
(* who did not, determine_tie_break_eliminated never returns the correct    *)
(* competitor and returns one with the maximum answer time among the rest   *)
AnsweredCorrectly(rs) ==
    {i \in 1..Len(rs) : rs[i].is_correct /\ rs[i].answer_time # NoTime}
NotCorrect(rs) == (1..Len(rs)) \ AnsweredCorrectly(rs)
EffectiveTime(r) == IF r.answer_time = NoTime THEN TIE_BREAK_TIME_LIMIT ELSE r.answer_time
SlowestOf(rs, I) == {i \in I : \A j \in I : EffectiveTime(rs[j]) <= EffectiveTime(rs[i])}
ReturnedFrom(rs, I) ==
    /\ elimOut.raised = ""
    /\ \E i \in I : rs[i].user_id = elimOut.eliminated
C11_OneCorrectIsSafe ==
    (/\ elimOut # NotCalled
     /\ Cardinality(AnsweredCorrectly(elimIn)) = 1
     /\ NotCorrect(elimIn) # {}) =>
        ReturnedFrom(elimIn, SlowestOf(elimIn, NotCorrect(elimIn)))
C11_Witness ==
    /\ Len(elimIn) = 3
    /\ [i \in 1..3 |-> elimIn[i].is_correct] = <<TRUE, FALSE, FALSE>>
    /\ [i \in 1..3 |-> elimIn[i].answer_time] = <<5, 3, 4>>
    /\ elimOut = TieVerdict("u3", "")

(* C12: with two or more competitors who answered correctly,              *)
(* determine_tie_break_eliminated returns one with the maximum answer time *)
(* among those who answered correctly                                      *)
C12_SlowestCorrect ==
    (/\ elimOut # NotCalled
     /\ Cardinality(AnsweredCorrectly(elimIn)) >= 2) =>
        ReturnedFrom(elimIn, SlowestOf(elimIn, AnsweredCorrectly(elimIn)))
C12_Witness ==
    /\ Len(elimIn) = 2
    /\ [i \in 1..2 |-> elimIn[i].is_correct] = <<TRUE, TRUE>>
    /\ [i \in 1..2 |-> elimIn[i].answer_time] = <<3, 4>>
    /\ elimOut = TieVerdict("u2", "")

(* C13: with at least one competitor who answered correctly and at least   *)
(* one who did not, the competitor determine_tie_break_eliminated returns  *)
(* is one who did not answer correctly                                     *)
C13_IncorrectNeverBeatsCorrect ==
    (/\ elimOut # NotCalled
     /\ AnsweredCorrectly(elimIn) # {}
     /\ NotCorrect(elimIn) # {}) =>
        ReturnedFrom(elimIn, NotCorrect(elimIn))

(* C14: with a non-empty list in which nobody answered correctly, also when *)
(* some have no answer time, determine_tie_break_eliminated returns         *)
(* normally a competitor whose effective time (the full limit for a timed   *)
(* out competitor) is maximal                                               *)
C14_NobodyCorrect ==
    (/\ elimOut # NotCalled
     /\ Len(elimIn) > 0
     /\ AnsweredCorrectly(elimIn) = {}) =>
        ReturnedFrom(elimIn, SlowestOf(elimIn, 1..Len(elimIn)))

(* C15: check_early_victory returns the leader exactly when the round is the *)
(* final round, exactly two competitors are not eliminated, their correct    *)
(* counts in the round differ and trailer + Q < leader, where Q is the       *)
(* number of question-instances of the round minus the number of distinct    *)
(* instances answered by either finalist; otherwise it returns no winner     *)
Finalists(rid) == {p \in DOMAIN players : ~players[p].is_eliminated}
CorrectCount(rid, p) ==
    Cardinality({a \in answers : a.rid = rid /\ a.user = p /\ a.is_correct})
AnsweredByEither(rid) ==
    {q \in 1..rounds[rid].nq :
        \E a \in answers : a.rid = rid /\ a.q = q /\ a.user \in Finalists(rid)}
QRemaining(rid) == rounds[rid].nq - Cardinality(AnsweredByEither(rid))
LeaderWins(rid, L) ==
    /\ rounds[rid].round_number = ROUNDS_PER_GAME
    /\ Cardinality(Finalists(rid)) = 2
    /\ L \in Finalists(rid)
    /\ \E T \in Finalists(rid) \ {L} :
         /\ CorrectCount(rid, T) # CorrectCount(rid, L)
         /\ CorrectCount(rid, T) + QRemaining(rid) < CorrectCount(rid, L)
C15_EarlyVictoryIff ==
    /\ ~early_victory_fires(2, 5, 7)
    /\ early_victory_fires(2, 5, 8)
    /\ elimOut # NotCalled =>
         /\ \A p \in DOMAIN players :
              (elimOut.winner = p) <=> LeaderWins(Len(rounds), p)
         /\ (elimOut.winner = NoUser) <=>
              ~\E p \in DOMAIN players : LeaderWins(Len(rounds), p)
C15_Witness ==
    /\ elimOut # NotCalled
    /\ elimOut.winner = "h1"
    /\ Finalists(Len(rounds)) = {"h1", "b2"}
    /\ CorrectCount(Len(rounds), "h1") = 1
    /\ QRemaining(Len(rounds)) = 0

(* C16: in every reachable finale state in which check_early_victory       *)
(* returns a winner, the trailer's correct count plus the number of        *)
(* question-instances of the round the trailer has not answered is less    *)
(* than the leader's correct count                                         *)
NotAnsweredBy(rid, p) ==
    {q \in 1..rounds[rid].nq : ~existing_answer(answers, rid, q, p)}
C16_VictoryIsCertain ==
    \A rid \in RoundIds :
      LET L == check_early_victory(game, rounds, players, answers, rid)
      IN (InFinale(players, rounds, rid) /\ L # NoUser) =>
            \A T \in Finalists(rid) \ {L} :
               CorrectCount(rid, T) + Cardinality(NotAnsweredBy(rid, T))
                  < CorrectCount(rid, L)

(* C17: every Answer recorded while the final round is in progress with two *)
(* competitors left (by handle_answer, process_bot_answers or the           *)
(* collect_answers backfill) has been covered by an evaluation of           *)
(* check_early_victory when the next question of the round is broadcast     *)
BroadcastsNext(rid, q) ==
    /\ q > 1
    /\ displayed[<<rid, q>>] = 0
    /\ displayed'[<<rid, q>>] # 0
C17_CheckedAfterEveryAnswer ==
    [][\A rid \in RoundIds : \A q \in QuestionsOf(rid) :
          BroadcastsNext(rid, q) => \A k \in unchecked : k[1] # rid]_vars

(* C18: from the moment early victory fires for leader L, the game is      *)
(* finished, no competitor is marked eliminated for the final round, L has *)
(* final_place 1 and the other finalist final_place 2, and no later job    *)
(* changes those places                                                    *)
C18_EarlyVictoryIsFinal ==
    fired # NoUser =>
       /\ game.status = "finished"
       /\ \A p \in Players : players[p].eliminated_round # ROUNDS_PER_GAME
       /\ players[fired].final_place = 1
       /\ \A p \in Alive \ {fired} : players[p].final_place = 2

(* C19: when finish_round signals that a tie-break is required at the end   *)
(* of round r, a child Round referencing the round as its parent is created *)
(* and its first question enters the Broadcast pipeline, neither            *)
(* start_next_round_task(r + 1) nor finish_game_task is scheduled, and the  *)
(* number of non-eliminated competitors is unchanged                        *)
TieBreakSignalled(rn, rid) ==
    /\ FrProceeds(rn)
    /\ rid \in RoundsNumbered(rn)
    /\ finish_round(game, rounds, players, answers, rid).early_victory = NoUser
    /\ determine_eliminated_player(round_results(players, answers, rid)).needs_tie_break
C19_TieBreakRound ==
    [][\A rn \in 1..ROUNDS_PER_GAME, rid \in RoundIds :
          (TieBreakSignalled(rn, rid) /\ finish_round_task(rn, rid, FALSE)) =>
              /\ \E c \in (DOMAIN rounds') \ (DOMAIN rounds) :
                    /\ rounds'[c].parent_round_id = rid
                    /\ SQ(c, 1) \in queue'
              /\ NR(rn + 1) \notin queue' \ queue
              /\ FG \notin queue' \ queue
              /\ Cardinality(Alive') = Cardinality(Alive)]_vars

(* C20: when finish_round decides an elimination for round r, the          *)
(* competitor is marked eliminated with eliminated_round = r, the Round is  *)
(* marked finished, and exactly one follow-up is scheduled:                 *)
(* start_next_round_task(r + 1) if and only if at least two competitors     *)
(* remain and r < ROUNDS_PER_GAME, finish_game_task otherwise               *)
EliminationDecided(rn, rid) ==
    /\ FrProceeds(rn)
    /\ rid \in RoundsNumbered(rn)
    /\ finish_round(game, rounds, players, answers, rid).early_victory = NoUser
    /\ ~determine_eliminated_player(round_results(players, answers, rid)).needs_tie_break
C20_EliminationFollowUp ==
    [][\A rn \in 1..ROUNDS_PER_GAME, rid \in RoundIds :
          (EliminationDecided(rn, rid) /\ finish_round_task(rn, rid, FALSE)) =>
              LET out == determine_eliminated_player(round_results(players, answers, rid)).eliminated
                  remain == {p \in Players : ~players'[p].is_eliminated}
              IN /\ out \in Players
                 /\ ~players[out].is_eliminated
                 /\ players'[out].is_eliminated
                 /\ players'[out].eliminated_round = rn
                 /\ remain = Alive \ {out}
                 /\ rounds'[rid].status = "finished"
                 /\ queue' = (queue \ {FR(rn)}) \cup
                       (IF Cardinality(remain) >= 2 /\ rn < ROUNDS_PER_GAME
                        THEN {NR(rn + 1)} ELSE {FG})]_vars
C20_Witness ==
    /\ Players = Trio
    /\ NR(2) \in queue
    /\ FG \notin queue
    /\ rounds[1].status = "finished"
    /\ \E p \in Players :
          /\ players[p].is_eliminated
          /\ players[p].eliminated_round = 1
          /\ Alive = Players \ {p}

(* C21: finishing a game takes effect at most once: each human competitor's *)
(* rating, games_played and games_won are updated at most once, and once    *)
(* the game is finished no final place is assigned again                    *)
PlacesOf(pl) == [p \in DOMAIN pl |-> pl[p].final_place]
C21_FinishedOnce ==
    [][/\ \A u \in DOMAIN users' : users'[u].games_played <= 1
       /\ game.status = "finished" =>
            /\ PlacesOf(players') = PlacesOf(players)
            /\ users' = users]_vars

RecipientOf(j) == CHOOSE u \in HumanIds : telegram_id(u) = j.chat
TimerIdle == edits' = edits /\ timers' \subseteq timers
C23_TimerStopsOnAnswer ==
    [][\A j \in timers :
          (/\ update_question_timer(j)
           /\ \/ existing_answer(answers, j.rid, j.q, RecipientOf(j))
              \/ timer_superseded(j)) => TimerIdle]_vars

(* C35: the update_question_timer steps started by one                     *)
(* start_question_timer call form a bounded chain: a step consumes its job *)
(* and schedules at most one successor, whose remaining is one less and at *)
(* least 1; a step with remaining 1 or less schedules nothing; no          *)
(* remaining value is edited twice, so the chain makes at most             *)
(* QUESTION_TIME_LIMIT edits                                               *)
EditsOf(es, j) == {e \in es : e[1] = j.rid /\ e[2] = j.q /\ e[3] = j.chat}
C35_TimerChainBounded ==
    [][\A j \in timers :
          update_question_timer(j) =>
              /\ j \notin timers'
              /\ timers' \ timers \subseteq {UT(j.rid, j.q, j.chat, j.remaining - 1)}
              /\ \A n \in timers' \ timers : n.remaining >= 1
              /\ j.remaining <= 1 => timers' \subseteq timers
              /\ edits' # edits => <<j.rid, j.q, j.chat, j.remaining>> \notin edits
              /\ Cardinality(EditsOf(edits', j)) <= QUESTION_TIME_LIMIT]_vars
C35_Witness ==
    /\ Cardinality({e \in edits : e[1] = 1 /\ e[2] = 1}) = QUESTION_TIME_LIMIT
    /\ \A j \in timers : ~(j.rid = 1 /\ j.q = 1)
    /\ <<1, 1, "h1">> \in started

(* C36: the start_game_task that start_game_from_pool or process_game_vote *)
(* enqueued starts the game: its step creates Round 1 and enqueues the     *)
(* Broadcast of the round's first question                                 *)
C36_HandedGameStarts ==
    [][(handoff \in {"pool", "vote"} /\ start_game_task(FALSE)) =>
          /\ Len(rounds') = 1
          /\ SQ(1, 1) \in queue']_vars

(* C37: once the game's status is cancelled or finished, no step changes   *)
(* it again                                                                *)
C37_StatusTerminal ==
    [][game.status \in {"cancelled", "finished"} => game'.status = game.status]_vars

(* C38: in every reachable state each competitor's total_score is the     *)
(* number of their correct Answers and their total_time is the sum of the  *)
(* answer times of their Answers                                           *)
C38_TotalsMatchLedger ==
    \A p \in Players :
        /\ players[p].total_score = ScoreOf(answers, p)
        /\ players[p].total_time = TimeOf(answers, p)

(* C39: an answer callback for a question-instance whose Round is not      *)
(* in_progress, from a user who is eliminated or not in the game, or who   *)
(* already has an Answer for the instance, leaves the Answer ledger and    *)
(* every competitor's totals as they were; any other callback adds exactly *)
(* one Answer, of that user for that instance, correct exactly when the    *)
(* selected letter is the instance's permuted correct-option label         *)
MustReject(u, rid, q) ==
    \/ rounds[rid].status # "in_progress"
    \/ u \notin Players
    \/ u \in Players /\ players[u].is_eliminated
    \/ existing_answer(answers, rid, q, u)
PermutedLabel(rid, q) == shuffles[<<rid, q>>].shuffle.correct_option_shuffled
C39_AnswerCallback ==
    [][\A u \in Callers, q \in AllQuestions, selected \in Selections :
          answer_callback(u, 1, q, selected) =>
              IF MustReject(u, 1, q)
              THEN /\ answers' = answers
                   /\ \A p \in Players : /\ players'[p].total_score = players[p].total_score
                                         /\ players'[p].total_time = players[p].total_time
              ELSE \E a \in answers' :
                     /\ a \notin answers
                     /\ answers' = answers \cup {a}
                     /\ a.user = u /\ a.rid = 1 /\ a.q = q
                     /\ a.is_correct = (Upper(selected) = PermutedLabel(1, q))]_vars
C39_Witness ==
    /\ replies.reply = "recorded"
    /\ PermutedLabel(1, replies.q) # Upper(shuffles[<<1, replies.q>>].question.correct_option)
    /\ \E a \in answers : a.user = replies.user /\ a.q = replies.q /\ a.is_correct
    /\ \E p \in Players : players[p].is_eliminated

(* C24: an update_question_timer step executed when its Round is not       *)
(* in_progress or its Game is cancelled or finished edits no message and   *)
(* schedules no successor                                                  *)
C24_TimerStopsWhenInactive ==
    [][\A j \in timers :
          (/\ update_question_timer(j)
           /\ \/ rounds[j.rid].status # "in_progress"
              \/ game.status \in {"cancelled", "finished"}) => TimerIdle]_vars

(* C25: a process_bot_answers step for a question-instance for which the   *)
(* job has already run creates no Answer and changes no total_score or     *)
(* total_time, and leaves every non-eliminated simulated competitor with   *)
(* exactly one Answer for that instance                                    *)
C25_BotAnswersIdempotent ==
    [][\A rid \in RoundIds, q \in AllQuestions :
          (RunsOf(PB(rid, q)) >= 1 /\ process_bot_answers(rid, q, FALSE)) =>
              /\ answers' = answers
              /\ \A p \in Players :
                    /\ players'[p].total_score = players[p].total_score
                    /\ players'[p].total_time = players[p].total_time
              /\ \A b \in Bots :
                    ~players[b].is_eliminated =>
                        Cardinality(AnswersOf(answers', rid, q, b)) = 1]_vars
C25_Witness ==
    \E rid \in RoundIds, q \in AllQuestions :
       /\ RunsOf(PB(rid, q)) = 2
       /\ \E b \in Bots : ~players[b].is_eliminated
                          /\ Cardinality(AnswersOf(answers, rid, q, b)) = 1

(* C26: a send that fails with a delivery error is attempted again, after  *)
(* delays of base, 2*base, 4*base, ..., until it succeeds or                *)
(* TELEGRAM_RETRY_ATTEMPTS attempts are used; a recipient is skipped only  *)
(* when every attempt failed, and every other recipient is still served    *)
FirstOk(outcomes) ==
    LET oks == {i \in 1..Len(outcomes) : outcomes[i] = "ok"}
    IN IF oks = {} THEN 0 ELSE CHOOSE i \in oks : \A k \in oks : i <= k
RECURSIVE Doubled(_, _)
Doubled(base, n) == IF n = 0 THEN base ELSE RETRY_EXPONENTIAL_BASE * Doubled(base, n - 1)
C26_RetriedThenSkipped ==
    sends # <<>> =>
        \A c \in Chats :
           LET first == FirstOk(telegram[c])
               tried == IF first = 0 THEN TELEGRAM_RETRY_ATTEMPTS ELSE first
           IN /\ sends[c].attempts = tried
              /\ sends[c].slept =
                    [i \in 1..(tried - 1) |-> Doubled(TELEGRAM_RETRY_BACKOFF_BASE, i - 1)]
              /\ sends[c].value = (first # 0)

(* C28: a send_next_question(round, k) step taken when some question of    *)
(* the round numbered k+1 or higher has displayed_at set enqueues nothing  *)
(* and changes nothing in the database                                     *)
DisplayedFrom(rid, n) ==
    \E q \in QuestionsOf(rid) : q >= n /\ displayed[<<rid, q>>] # 0
C28_StaleAdvanceDiscarded ==
    [][\A rid \in RoundIds, k \in AllQuestions, r \in BOOLEAN :
          (DisplayedFrom(rid, k + 1) /\ send_next_question(rid, k, r)) =>
              /\ queue' \subseteq queue
              /\ UNCHANGED <<game, rounds, displayed, clock, sentTo, answers, players,
                             unused, users>>]_vars
C28_Witness ==
    /\ RunsOf(SN(1, 1)) = 2
    /\ advEnq[<<1, 2>>] = 1
    /\ displayed[<<1, 2>>] # 0
    /\ rounds[1].status = "in_progress"
    /\ game.status = "in_progress"

(* C29: a collect_answers job enters the queue only in a step that leaves  *)
(* its question-instance with displayed_at set; a send_question_to_players *)
(* step that leaves displayed_at unset keeps itself enqueued and enqueues  *)
(* no collect_answers; one that leaves it set enqueues collect_answers     *)
C29_CollectOnlyWhenDisplayed ==
    [][\A rid \in RoundIds, q \in AllQuestions :
          /\ (CA(rid, q) \in queue' \ queue) => displayed'[<<rid, q>>] # 0
          /\ send_question_to_players(rid, q, FALSE) =>
                IF displayed'[<<rid, q>>] = 0
                THEN /\ SQ(rid, q) \in queue'
                     /\ CA(rid, q) \in queue' => CA(rid, q) \in queue
                ELSE CA(rid, q) \in queue']_vars
C29_Witness ==
    /\ faults >= 1
    /\ rounds[1].status = "in_progress"
    /\ displayed[<<1, 1>>] = 0
    /\ SQ(1, 1) \in queue
    /\ CA(1, 1) \notin queue
    /\ <<1, 1>> \notin collected

(* C30: a collect_answers step leaves every competitor that is neither     *)
(* eliminated nor gone, human or simulated, with an Answer for the         *)
(* question-instance; every Answer it adds is incorrect with answer_time   *)
(* QUESTION_TIME_LIMIT, and no Answer that existed is changed              *)
Eligible == {p \in Players : ~players[p].is_eliminated /\ ~players[p].left_game}
C30_CollectedForEveryone ==
    [][\A rid \in RoundIds, q \in AllQuestions :
          collect_answers(rid, q, FALSE) =>
              /\ \A p \in Eligible : existing_answer(answers', rid, q, p)
              /\ answers \subseteq answers'
              /\ \A a \in answers' \ answers :
                    ~a.is_correct /\ a.answer_time = QUESTION_TIME_LIMIT]_vars

(* C27: whenever send_next_question(round, k) has returned on a locked      *)
(* Round row, then under fair execution question k+1 is eventually         *)
(* broadcast or, after the last question, finish_round_task is eventually  *)
(* enqueued (unless the round or the game has stopped being in progress)   *)
Progressed(k) ==
    \/ <<1, k + 1>> \in DOMAIN advEnq /\ advEnq[<<1, k + 1>>] >= 1
    \/ FR(1) \in queue
    \/ rounds[1].status # "in_progress"
    \/ game.status # "in_progress"
C27_ProgressAfterFailedLock ==
    \A k \in AllQuestions : (<<1, k>> \in skipped) ~> Progressed(k)

(* C31: a start_game_task step in which start_game fails because no        *)
(* question is available for Round 1 leaves the game's status and          *)
(* current_round as they were and creates no Round row                     *)
C31_FailedStartNoEffect ==
    [][\A r \in BOOLEAN :
          (/\ start_game_allowed(game)
           /\ QuestionsFound = 0
           /\ start_game_task(r)) =>
              /\ game' = game
              /\ rounds' = rounds]_vars

(* C32: under fair execution of the enqueued jobs a started game           *)
(* eventually reaches status finished                                      *)
C32_EventuallyFinished ==
    (game.status = "in_progress") ~> (game.status = "finished")

(* C33: in every reachable state of a started game at least one            *)
(* competitor is non-eliminated                                            *)
C33_SomeoneRemains ==
    game.status \in {"in_progress", "finished"} => Alive # {}

(* C10: whenever two or more competitors of the minimum-correct group share  *)
(* the maximum cumulative time, determine_eliminated_player signals          *)
(* tie-break with no eliminated competitor and finish_round marks nobody     *)
(* eliminated                                                                *)
TiedAtBottom(rs) == Cardinality(SlowestWithMinCorrect(rs)) >= 2
C10_TieBreakNoElimination ==
    [][\A rn \in 1..ROUNDS_PER_GAME, rid \in RoundIds, r \in BOOLEAN :
          (/\ FrProceeds(rn)
           /\ rid \in RoundsNumbered(rn)
           /\ TiedAtBottom(round_results(players, answers, rid))
           /\ finish_round_task(rn, rid, r)) =>
              /\ determine_eliminated_player(round_results(players, answers, rid))
                    = Verdict(NoUser, TRUE)
              /\ \A p \in Players : players'[p].is_eliminated = players[p].is_eliminated]_vars
C10_Witness ==
    /\ NR(2) \in queue
    /\ game.current_round = 1
    /\ \A p \in Players : ~players[p].is_eliminated
    /\ TiedAtBottom(round_results(players, answers, 1))

(* the program together with the operator's cleanup script *)
NextCancel == Next \/ cleanup_all_games \/ cleanup_purge

Spec == Init /\ [][Next]_vars
SpecOnce == Init /\ [][NextOnce]_vars
SpecTimer == Init /\ [][NextTimer]_vars
SpecDupStart == Init /\ [][NextDupStart]_vars
SpecDupAdvance == Init /\ [][NextDupAdvance]_vars
SpecFlaky == Init /\ [][NextFlaky]_vars
SpecAnswer == InitAnswer /\ [][NextAnswer]_vars
SpecMatch == InitMatch /\ [][NextMatch]_vars
SpecCountdown == Init /\ [][NextCountdown]_vars
SpecLock == InitTx /\ [][NextLock]_vars /\ FairLock
SpecRosters == InitRosters /\ [][NextOnce]_vars
SpecFair == InitTrio /\ [][NextOnce]_vars /\ FairOnce
SpecFullBank == InitFullBank /\ [][NextOnce]_vars
SpecBanks == InitBanks /\ [][NextOnce]_vars
SpecCancel == Init /\ [][NextCancel]_vars
SpecTx == InitTx /\ [][NextTx]_vars
SpecLedger == InitTx /\ [][NextLedger]_vars
SpecRetry == InitRetry /\ [][NextRetry]_vars
SpecElim == InitElim /\ [][NextElim]_vars
SpecTie == InitTie /\ [][NextTie]_vars
SpecEarly == InitEarly /\ [][NextEarly]_vars
====
